---- MODULE Spec2Model ----
(***************************************************************************)
(* Model of the mover engine of the aim trainer (js/systems/movers.js)     *)
(* together with the hit registration of js/main.js (shoot) and the       *)
(* configuration handlers of js/render/canvas.js.                          *)
(*                                                                         *)
(* Conventions of the model                                                *)
(*  - Screen space is the slice sy = 0 of the arena: every random y draw   *)
(*    is 0, the player does not move or rotate and there are no static    *)
(*    targets, so that Math.hypot(dx, 0) = |dx| is exact.                  *)
(*  - Floating point values are fixed point integers: positions in px,    *)
(*    velocities in 1/VelScale px per frame, anchor velocities in         *)
(*    1/AnchorVelScale px per ms, heat in 1/HeatScale, weights in 1/10,    *)
(*    boost fractions in 1/100.  A division of the code is a truncating   *)
(*    division here.                                                       *)
(*  - Math.random() is an input: every handler takes one record d of      *)
(*    draws, a draw u in [0,1) being the numerator of u = k / RandDen.    *)
(*    All draws of the same kind made inside one call use the same value. *)
(*  - nowMs() is the variable now; only updateMovers reads a later clock. *)
(***************************************************************************)
EXTENDS Integers, Sequences, FiniteSets, TLC

VARIABLES
    movers,         \* state.movers: sequence of mover objects
    roleCounts,     \* roleCounts: role name -> live count
    episodeCounts,  \* episodeCounts: episode name -> live count
    heatMap,        \* heatMap[4]: the row of the heat grid that holds sy = 0
    cfg,            \* CFG: moversEnabled, moversCount, regenOnHit
    now,            \* last value returned by nowMs()
    last            \* history: the handler that ran last and the objects it touched

vars == <<movers, roleCounts, episodeCounts, heatMap, cfg, now, last>>

----------------------------------------------------------------------------
(* Bounds of the model *)

MaxTime == 8000      \* the clock stops here
MaxPool == 9         \* no handler runs once a pool's counts sum to this
LifeCount == 2       \* the movers of the lifecycle specification
PoolCap == 17        \* MaxPool of the pool specification
CountCap == 14       \* MaxPool of the count specification

(* Fixed point scales: Math.random() = k / Scale.rand with k in 0..Scale.rand-1,
   velocities in 1/Scale.vel px per frame, anchor velocities in 1/Scale.anchorVel
   px per ms, heat in 1/Scale.heat. *)
Scale == [rand |-> 4, vel |-> 100, anchorVel |-> 1000, heat |-> 1000]
RandDen == Scale.rand
VelScale == Scale.vel
AnchorVelScale == Scale.anchorVel
HeatScale == Scale.heat

(* state.canvas of the model: limX = 800, limY = 450, heat cells of 100 x 100 px. *)
canvas == [width |-> 1880, height |-> 1180]

(* Program constants *)

MARGIN == 140
MOVERS_MAX_HITS == 3
HEAL_INTERVAL_MS == 4000
EPISODE_MAX_COUNT == 2
ROLE_MAX_COUNT == 2
HEAT_COLS == 16
HEAT_ROWS == 9
HEATMAP_DECAY == 98            \* 0.98, in 1/100
HEATMAP_INCREMENT == 1 * HeatScale
MICRO_MIN_MS == 2500
MICRO_MAX_MS == 5000
MAX_MOVERS == 5                \* clamp(CFG.moversCount | 0, 0, 5)
moversR == 14                  \* CFG.moversR
moversSpeed == 1               \* CFG.moversSpeed
moversAvoid == 1               \* CFG.moversAvoid
moversHit1Boost == 40          \* CFG.moversHit1Boost = 0.40, in 1/100
moversHit2Boost == 60          \* CFG.moversHit2Boost = 0.60, in 1/100
moversFlee == cfg.moversFlee     \* CFG.moversFlee, read where it is used

MICRO_TIERS == <<"S", "M", "L", "M", "S">>
MICRO_PATTERN_NAMES ==
    <<"figure8", "figure8Wide", "figure8Spiral", "spiral", "spiralBurst",
      "rosette", "swerveStop">>
FigureFamily == {"figure8", "figure8Wide", "figure8Spiral"}
SpiralFamily == {"figure8Spiral", "spiral", "spiralBurst"}
TierNames == <<"S", "M", "L">>

RoleNames == <<"Runner", "Dancer", "Trickster", "Kiter">>
EpisodeNames == <<"Explore", "Perform", "Evade", "Kite">>

(* ROLES: anchorBias and weights in 1/10; a pattern that is not listed has
   weight 1 (rolePat[name] || 1). *)
ROLES ==
    [Runner |->
        [anchorBias |-> 7,
         patternWeights |-> [figure8 |-> 10, figure8Wide |-> 5, figure8Spiral |-> 5,
                             spiral |-> 20, spiralBurst |-> 15, rosette |-> 10,
                             swerveStop |-> 10],
         tierWeights |-> [S |-> 10, M |-> 15, L |-> 20]],
     Dancer |->
        [anchorBias |-> -2,
         patternWeights |-> [figure8 |-> 20, figure8Wide |-> 15, figure8Spiral |-> 12,
                             spiral |-> 5, spiralBurst |-> 5, rosette |-> 10,
                             swerveStop |-> 10],
         tierWeights |-> [S |-> 15, M |-> 10, L |-> 8]],
     Trickster |->
        [anchorBias |-> 0,
         patternWeights |-> [figure8 |-> 8, figure8Wide |-> 20, figure8Spiral |-> 20,
                             spiral |-> 8, spiralBurst |-> 10, rosette |-> 10,
                             swerveStop |-> 10],
         tierWeights |-> [S |-> 10, M |-> 10, L |-> 10]],
     Kiter |->
        [anchorBias |-> 5,
         patternWeights |-> [figure8 |-> 10, figure8Wide |-> 5, figure8Spiral |-> 5,
                             spiral |-> 18, spiralBurst |-> 18, rosette |-> 10,
                             swerveStop |-> 10],
         tierWeights |-> [S |-> 8, M |-> 12, L |-> 18]]]

(* EPISODES: as ROLES, plus macroSpeed in 1/10. *)
EPISODES ==
    [Explore |->
        [anchorBias |-> 2,
         patternWeights |-> [figure8 |-> 10, figure8Wide |-> 10, figure8Spiral |-> 7,
                             spiral |-> 6, spiralBurst |-> 5, rosette |-> 8,
                             swerveStop |-> 8],
         tierWeights |-> [S |-> 12, M |-> 10, L |-> 8],
         macroSpeed |-> 11],
     Perform |->
        [anchorBias |-> 0,
         patternWeights |-> [figure8 |-> 20, figure8Wide |-> 15, figure8Spiral |-> 12,
                             spiral |-> 12, spiralBurst |-> 10, rosette |-> 7,
                             swerveStop |-> 5],
         tierWeights |-> [S |-> 8, M |-> 12, L |-> 16],
         macroSpeed |-> 7],
     Evade |->
        [anchorBias |-> 6,
         patternWeights |-> [figure8 |-> 7, figure8Wide |-> 7, figure8Spiral |-> 8,
                             spiral |-> 6, spiralBurst |-> 8, rosette |-> 10,
                             swerveStop |-> 15],
         tierWeights |-> [S |-> 16, M |-> 10, L |-> 7],
         macroSpeed |-> 14],
     Kite |->
        [anchorBias |-> 8,
         patternWeights |-> [figure8 |-> 8, figure8Wide |-> 6, figure8Spiral |-> 7,
                             spiral |-> 15, spiralBurst |-> 13, rosette |-> 12,
                             swerveStop |-> 6],
         tierWeights |-> [S |-> 9, M |-> 11, L |-> 14],
         macroSpeed |-> 10]]

----------------------------------------------------------------------------
(* utils/math.js *)

Max(a, b) == IF a > b THEN a ELSE b
Min(a, b) == IF a < b THEN a ELSE b

clamp(v, a, b) == Max(a, Min(b, v))

Abs(x) == IF x < 0 THEN -x ELSE x

Sign(x) == IF x < 0 THEN -1 ELSE IF x > 0 THEN 1 ELSE 0

(* Truncating division, as a float division followed by the fixed point cut. *)
Div(a, b) == IF a >= 0 THEN a \div b ELSE -((-a) \div b)

(* Math.floor(Math.random() * n) for the draw k / RandDen. *)
RandIndex(k, n) == (k * n) \div RandDen

(* a + Math.random() * (b - a) *)
rand(a, b, k) == a + (k * (b - a)) \div RandDen

limX == canvas.width \div 2 - MARGIN
limY == canvas.height \div 2 - MARGIN
MaxLim == Max(limX, limY)
MinLim == Min(limX, limY)

----------------------------------------------------------------------------
(* Role and episode pools *)

(* Index of the first entry of names whose count is the minimum: the loop
   `if (count < min) { min = count; chosen = name; }` over Object.entries. *)
RECURSIVE FirstMin(_, _, _, _)
FirstMin(names, counts, i, best) ==
    IF i > Len(names) THEN best
    ELSE IF best = 0 \/ counts[names[i]] < counts[names[best]]
         THEN FirstMin(names, counts, i + 1, i)
         ELSE FirstMin(names, counts, i + 1, best)

(* The selection shared by pickEpisode and pickRole: uniformly among the
   categories under the cap, else the category with the least count. *)
pickUnderCap(names, counts, cap, k) ==
    LET candidates == SelectSeq(names, LAMBDA n : counts[n] < cap)
    IN IF Len(candidates) > 0
       THEN candidates[RandIndex(k, Len(candidates)) + 1]
       ELSE names[FirstMin(names, counts, 1, 0)]

(* pickEpisode returns the name; the caller below applies episodeCounts[chosen]++. *)
pickEpisode(counts, k) == pickUnderCap(EpisodeNames, counts, EPISODE_MAX_COUNT, k)

(* pickRole returns the name; the caller below applies roleCounts[chosen]++. *)
pickRole(counts, k) == pickUnderCap(RoleNames, counts, ROLE_MAX_COUNT, k)

Incr(counts, name) == [counts EXCEPT ![name] = @ + 1]

(* counts[name] = Math.max(0, counts[name] - 1) *)
Decr(counts, name) == [counts EXCEPT ![name] = Max(0, @ - 1)]

----------------------------------------------------------------------------
(* Weighted draws *)

RECURSIVE CumSum(_, _, _)
CumSum(names, w, i) == IF i = 0 THEN 0 ELSE CumSum(names, w, i - 1) + w[names[i]]

(* rPick = Math.random() * sum; the first i with rPick <= cum[i], else names[0].
   With Math.random() = k / RandDen the test is k * sum <= RandDen * cum[i]. *)
weightedPick(names, w, k) ==
    LET sum == CumSum(names, w, Len(names))
        hits == {i \in 1..Len(names) : k * sum <= RandDen * CumSum(names, w, i)}
    IN IF hits = {} THEN names[1]
       ELSE names[CHOOSE i \in hits : \A j \in hits : i <= j]

(* MICRO_TIERS.indexOf(name), 0-based *)
tierIndexOf(name) ==
    (CHOOSE i \in 1..Len(MICRO_TIERS) :
        MICRO_TIERS[i] = name /\ \A j \in 1..(i - 1) : MICRO_TIERS[j] # name) - 1

----------------------------------------------------------------------------
(* spawnMoverInWindow, respawnMover, ensureMoversCount, respawnAllMovers.
   A world st is [movers, rc, ec, heat]: state.movers, roleCounts,
   episodeCounts and the heat map. *)

(* The least object name no mover of ms carries: a popped object is garbage,
   so its name is free again. *)
FreshId(ms) ==
    CHOOSE n \in 1..(Len(ms) + 1) :
        /\ \A i \in 1..Len(ms) : ms[i].id # n
        /\ \A k \in 1..(n - 1) : \E i \in 1..Len(ms) : ms[i].id = k

(* The object literal spawnMoverInWindow returns, for the role and the episode
   it picked, at clock t. *)
moverObject(role, episode, t, d, id) ==
    LET initialPattern ==
            weightedPick(MICRO_PATTERN_NAMES, ROLES[role].patternWeights, d.pattern)
        chosenTier == weightedPick(TierNames, ROLES[role].tierWeights, d.tier)
    IN [id |-> id,
        sx |-> rand(-limX + clamp(moversR, 4, MinLim), limX - clamp(moversR, 4, MinLim), d.sx),
        vx |-> d.vx * VelScale,
        r |-> clamp(moversR, 4, MinLim),
        hits |-> 0,
        escapeBoost |-> 0,
        lastHitTime |-> 0,
        dead |-> FALSE,
        anchorExpires |-> 0,
        microPattern |-> initialPattern,
        microTier |-> chosenTier,
        microTierIndex |-> tierIndexOf(chosenTier),
        microStart |-> t,
        microDuration |-> rand(MICRO_MIN_MS, MICRO_MAX_MS, d.microDur),
        microBlendStart |-> t,
        microNextSwitch |-> t + rand(MICRO_MIN_MS, MICRO_MAX_MS, d.microDur),
        prevOffset |-> 0,
        nonFigureCount |-> IF initialPattern \in FigureFamily THEN 0 ELSE 1,
        role |-> role,
        roleExpires |-> t + rand(8000, 16000, d.roleLife),
        episode |-> episode,
        episodeExpires |-> t + rand(2000, 6000, d.episodeLife),
        dna |-> d.dna,
        anchorPosSx |-> 0,
        anchorTargetSx |-> 0,
        anchorVelSx |-> 0,
        anchorMoveStart |-> t,
        anchorMoveDuration |-> 3000,
        anchorMoveEnd |-> t + 3000,
        phaseFlipUntil |-> 0,
        zigZagUntil |-> 0]

(* roleCounts[chosen]++ of pickRole and episodeCounts[chosen]++ of pickEpisode *)
counted(m, rc, ec) == [m |-> m, rc |-> Incr(rc, m.role), ec |-> Incr(ec, m.episode)]

(* spawnMoverInWindow() at clock t: the object and the pools after its
   pickRole() and pickEpisode(). *)
spawnMoverInWindow(rc, ec, t, d, id) ==
    counted(moverObject(pickRole(rc, d.role), pickEpisode(ec, d.episode), t, d, id), rc, ec)

(* respawnMover(m) after `const nm = spawnMoverInWindow()`: the fields of nm are
   copied into m, the old role and episode are released and the new ones are
   counted once more. *)
adjustCounts(m, sp) ==
    [m |-> [sp.m EXCEPT !.phaseFlipUntil = m.phaseFlipUntil, !.zigZagUntil = m.zigZagUntil],
     rc |-> Incr(Decr(sp.rc, m.role), sp.m.role),
     ec |-> Incr(Decr(sp.ec, m.episode), sp.m.episode)]

respawnMover(m, rc, ec, t, d) == adjustCounts(m, spawnMoverInWindow(rc, ec, t, d, m.id))

(* A variant of targetCount without the clamp. *)
targetCountUnclamped(c) == IF c.moversEnabled THEN c.moversCount ELSE 0

(* n of ensureMoversCount *)
targetCount(c) == IF c.moversEnabled THEN clamp(c.moversCount, 0, MAX_MOVERS) ELSE 0

(* state.movers.push(sp.m) *)
pushed(st, sp) == [st EXCEPT !.movers = Append(@, sp.m), !.rc = sp.rc, !.ec = sp.ec]

(* while (state.movers.length < n) state.movers.push(spawnMoverInWindow()) *)
RECURSIVE pushUntil(_, _, _, _)
pushUntil(st, n, t, d) ==
    IF Len(st.movers) >= n THEN st
    ELSE pushUntil(pushed(st, spawnMoverInWindow(st.rc, st.ec, t, d, FreshId(st.movers))),
                   n, t, d)

(* while (state.movers.length > n) state.movers.pop() *)
popUntil(st, n) == IF Len(st.movers) > n THEN [st EXCEPT !.movers = SubSeq(@, 1, n)] ELSE st

(* ensureMoversCount() under configuration c at clock t *)
ensureMoversCount(st, c, t, d) ==
    IF targetCount(c) = 0 THEN [st EXCEPT !.movers = <<>>]
    ELSE popUntil(pushUntil(st, targetCount(c), t, d), targetCount(c))

(* The slot i of the world after respawnMover(state.movers[i]) returned rs. *)
respawned(st, i, rs) == [st EXCEPT !.movers[i] = rs.m, !.rc = rs.rc, !.ec = rs.ec]

(* for (i ...) respawnMover(state.movers[i]) *)
RECURSIVE respawnEach(_, _, _, _)
respawnEach(st, i, t, d) ==
    IF i > Len(st.movers) THEN st
    ELSE respawnEach(respawned(st, i, respawnMover(st.movers[i], st.rc, st.ec, t, d)),
                     i + 1, t, d)

(* m.dead = false; m.hits = 0; m.escapeBoost = 0; m.lastHitTime = 0 *)
resetCombat(m) ==
    [m EXCEPT !.dead = FALSE, !.hits = 0, !.escapeBoost = 0, !.lastHitTime = 0]

resetAll(st) == [st EXCEPT !.movers = [i \in 1..Len(st.movers) |-> resetCombat(st.movers[i])]]

(* A variant of respawnAllMovers without its loop. *)
respawnAllEnsuresOnly(st, c, t, d) == ensureMoversCount(st, c, t, d)

(* In respawnAllMovers each respawnMover(m) is followed by the resets of m; a
   respawn reads no combat field of another mover, so the resets commute with
   the later respawns. *)
respawnAllMovers(st, c, t, d) == resetAll(respawnEach(ensureMoversCount(st, c, t, d), 1, t, d))

----------------------------------------------------------------------------
(* Heat map (the row of sy = 0; column c is heat[c + 1]) *)

TIER_SCALE == [S |-> 15, M |-> 35, L |-> 60]       \* in 1/100
SPIRAL_SCALE == [S |-> 25, M |-> 50, L |-> 75]     \* in 1/100

cellW == (limX * 2) \div HEAT_COLS

(* decayHeatMap: row[c] *= HEATMAP_DECAY *)
decayHeatMap(heat) == [c \in 1..HEAT_COLS |-> (heat[c] * HEATMAP_DECAY) \div 100]

(* getCellForPos(sx, 0, limX, limY).col *)
getCellForPos(sx) == clamp((sx + limX) \div cellW, 0, HEAT_COLS - 1)

addHeat(heat, col, amount) == [heat EXCEPT ![col + 1] = @ + amount]

(* A variant of the occupancy loop without `if (mv.dead) continue`. *)
RECURSIVE occupyHeatAll(_, _, _)
occupyHeatAll(heat, ms, i) ==
    IF i > Len(ms) THEN heat
    ELSE occupyHeatAll(addHeat(heat, getCellForPos(ms[i].anchorPosSx),
                               (HEATMAP_INCREMENT * 2) \div 10), ms, i + 1)

(* for (const mv of state.movers) { if (mv.dead) continue; ... += INCREMENT * 0.2 } *)
RECURSIVE occupyHeat(_, _, _)
occupyHeat(heat, ms, i) ==
    IF i > Len(ms) THEN heat
    ELSE IF ms[i].dead THEN occupyHeat(heat, ms, i + 1)
    ELSE occupyHeat(addHeat(heat, getCellForPos(ms[i].anchorPosSx),
                            (HEATMAP_INCREMENT * 2) \div 10), ms, i + 1)

----------------------------------------------------------------------------
(* chooseNewAnchorTarget *)

(* The movers of moversList whose anchor enters the distance term of the score
   of mover i: every other entry of the list. *)
scoredOthers(ms, i) == {j \in 1..Len(ms) : j # i}

(* minDistMovers of a candidate at sx: the least |sx - other.anchorPosSx| over
   the movers of `others`, or Infinity (inf) when there is none. *)
minDistMovers(ms, others, sx) ==
    IF others = {} THEN [inf |-> TRUE, v |-> 0]
    ELSE [inf |-> FALSE,
          v |-> CHOOSE x \in {Abs(sx - ms[j].anchorPosSx) : j \in others} :
                    \A j \in others : x <= Abs(sx - ms[j].anchorPosSx)]

(* sx of the candidate of column c *)
candidateSx(c, d) ==
    -limX + (c * cellW + cellW \div 2) + Div((2 * d.jitter - RandDen) * cellW * 8, 2 * RandDen * 10)

(* score of a candidate at sx in column c whose distance term is md, scaled by
   10 * MaxLim * HeatScale. *)
scored(m, heat, c, sx, md) ==
    [sx |-> sx, col |-> c, inf |-> md.inf,
     score |-> 10 * MaxLim * HeatScale - MaxLim * heat[c + 1]
               + 12 * HeatScale * md.v
               + (IF moversFlee THEN 5 * HeatScale * Abs(sx) ELSE 0)
               + HeatScale * Abs(sx) * (ROLES[m.role].anchorBias + EPISODES[m.episode].anchorBias)]

candidateScore(m, ms, others, heat, c, d) ==
    scored(m, heat, c, candidateSx(c, d), minDistMovers(ms, others, candidateSx(c, d)))

(* score > best.score, with Infinity > x for every finite x and not Infinity > Infinity *)
scoreGreater(a, b) ==
    \/ a.inf /\ ~b.inf
    \/ ~a.inf /\ ~b.inf /\ a.score > b.score

(* if (!best || score > best.score) best = ...; attempt k is the first when k = 1 *)
better(cur, best, k) == IF k = 1 \/ scoreGreater(cur, best) THEN cur ELSE best

RECURSIVE bestCandidate(_, _, _, _, _, _, _)
bestCandidate(m, ms, others, heat, d, k, best) ==
    IF k > Len(d.cand) THEN best
    ELSE bestCandidate(m, ms, others, heat, d, k + 1,
                       better(candidateScore(m, ms, others, heat, d.cand[k], d), best, k))

(* The transition to the best candidate: `if (best) { ... }` *)
anchored(m, best, t, d) ==
    LET dist == IF Abs(best.sx - m.anchorPosSx) = 0 THEN 1 ELSE Abs(best.sx - m.anchorPosSx)
        dur == (rand(2000, 5000, d.anchorDur) * 10) \div EPISODES[m.episode].macroSpeed
               + (dist * 3) \div 10
    IN [m EXCEPT !.anchorTargetSx = best.sx,
                 !.anchorMoveStart = t,
                 !.anchorMoveDuration = dur,
                 !.anchorMoveEnd = t + dur,
                 !.anchorVelSx = Div((best.sx - m.anchorPosSx) * AnchorVelScale, dur)]

retargeted(st, i, best, t, d) ==
    [st EXCEPT !.movers[i] = anchored(@, best, t, d),
               !.heat = addHeat(@, best.col, HEATMAP_INCREMENT)]

(* chooseNewAnchorTarget(m, t, limX, limY, [], state.movers) for m = state.movers[i] *)
chooseNewAnchorTarget(st, i, t, d) ==
    retargeted(st, i,
               bestCandidate(st.movers[i], st.movers, scoredOthers(st.movers, i), st.heat,
                             d, 1, <<>>),
               t, d)

----------------------------------------------------------------------------
(* chooseNewMicro, computeMicroOffset *)

(* A variant of patternCandidates without the anti-drought filter. *)
patternCandidatesAll(m) == MICRO_PATTERN_NAMES

(* candidates: the figure-eight family when forceFigure, else every name *)
patternCandidates(m) ==
    IF m.nonFigureCount >= 3
    THEN SelectSeq(MICRO_PATTERN_NAMES, LAMBDA n : n \in FigureFamily)
    ELSE MICRO_PATTERN_NAMES

chooseNewMicro(m, t, d) ==
    LET tierIndex == (m.microTierIndex + 1) % Len(MICRO_TIERS)
        candidates == patternCandidates(m)
        w == [n \in {candidates[k] : k \in 1..Len(candidates)} |->
                 ROLES[m.role].patternWeights[n] * EPISODES[m.episode].patternWeights[n]]
        chosenName == weightedPick(candidates, w, d.pattern)
        nextIndex == (tierIndex + 1) % Len(MICRO_TIERS)
        tierCandidates == <<MICRO_TIERS[nextIndex + 1],
                            MICRO_TIERS[((nextIndex + 1) % Len(MICRO_TIERS)) + 1],
                            MICRO_TIERS[((nextIndex + 2) % Len(MICRO_TIERS)) + 1]>>
        tw == [n \in {"S", "M", "L"} |->
                  ROLES[m.role].tierWeights[n] * EPISODES[m.episode].tierWeights[n]]
        chosenTierName == weightedPick(tierCandidates, tw, d.tier)
        baseDur == rand(MICRO_MIN_MS, MICRO_MAX_MS, d.microDur)
    IN [m EXCEPT !.microPattern = chosenName,
                 !.microTier = chosenTierName,
                 !.microTierIndex = tierIndexOf(chosenTierName),
                 !.microStart = t,
                 !.microDuration = baseDur,
                 !.microBlendStart = t,
                 !.microNextSwitch = t + baseDur,
                 !.nonFigureCount = IF chosenName \in FigureFamily THEN 0 ELSE @ + 1]

MICRO_BLEND_MS == 600

(* The amplitude of the pattern of m along x *)
microAmp(m) ==
    IF m.microPattern \in SpiralFamily
    THEN (SPIRAL_SCALE[m.microTier] * MinLim) \div 100
    ELSE (TIER_SCALE[m.microTier] * limX) \div 100

(* ox after the feints: the phase flip, and the zig-zag zz * ampX * 0.3 with
   zz = sin(25 * elapsedSec) * 0.1 drawn as d.zz in 1/100 *)
feinted(m, t, ox, d) ==
    (IF t < m.phaseFlipUntil THEN -ox ELSE ox)
        + (IF t < m.zigZagUntil THEN Div(d.zz * microAmp(m) * 3, 1000) ELSE 0)

(* The soft clamp of the offset raw to the room maxDx left beside the anchor *)
softClamp(raw, maxDx) ==
    IF maxDx <= 0 THEN 0
    ELSE IF Abs(raw) > maxDx THEN Sign(raw) * maxDx ELSE raw

(* The blend of the cached offset into ox after bdt ms, and the cache *)
blended(m, ox, bdt) ==
    [x |-> Div(m.prevOffset * (MICRO_BLEND_MS - bdt) + ox * bdt, MICRO_BLEND_MS),
     m |-> IF bdt >= MICRO_BLEND_MS
           THEN [m EXCEPT !.prevOffset =
                              Div(m.prevOffset * (MICRO_BLEND_MS - bdt) + ox * bdt,
                                  MICRO_BLEND_MS)]
           ELSE m]

(* computeMicroOffset(m, t, limX, limY): the x offset returned and the mover
   with its prevOffset cache.  d.pt is the rotated pattern value pt.x in 1/10. *)
computeMicroOffset(m, t, d) ==
    blended(m,
            softClamp(feinted(m, t, Div(d.pt * microAmp(m), 10), d),
                      limX - Abs(m.anchorPosSx) - (m.r + 20)),
            clamp(t - m.microBlendStart, 0, MICRO_BLEND_MS))

----------------------------------------------------------------------------
(* updateMovers: the steps of one mover of the per-mover loop, each from the
   world st to the world after it.  t is tNow; scr is moversScr, the screen
   positions taken before the loop. *)

(* m.hits > 0 && m.lastHitTime && (tNow - m.lastHitTime > HEAL_INTERVAL_MS) *)
healDue(m, t) == m.hits > 0 /\ m.lastHitTime # 0 /\ t - m.lastHitTime > HEAL_INTERVAL_MS

(* A variant of healStep that forgets m.escapeBoost = 0. *)
healStepKeepsBoost(m, t) ==
    IF healDue(m, t) THEN [m EXCEPT !.hits = 0, !.lastHitTime = 0] ELSE m

healStep(m, t) ==
    IF healDue(m, t)
    THEN [m EXCEPT !.hits = 0, !.escapeBoost = 0, !.lastHitTime = 0]
    ELSE m

setMover(st, i, m) == [st EXCEPT !.movers[i] = m]

heal(st, i, t) == setMover(st, i, healStep(st.movers[i], t))

(* The role pickRole() chose from the pool rc1 that has released the old role *)
roleTaken(st, i, rc1, role, t, d) ==
    [st EXCEPT !.movers[i] = chooseNewMicro([@ EXCEPT !.role = role,
                                                      !.roleExpires = t + rand(8000, 16000, d.roleLife),
                                                      !.anchorExpires = t], t, d),
               !.rc = Incr(rc1, role)]

(* if (m.roleExpires != null && tNow > m.roleExpires) { ... } *)
roleExpiry(st, i, t, d) ==
    IF t > st.movers[i].roleExpires
    THEN roleTaken(st, i, Decr(st.rc, st.movers[i].role),
                   pickRole(Decr(st.rc, st.movers[i].role), d.role), t, d)
    ELSE st

(* The episode pickEpisode() chose from the pool ec1 that has released the old
   episode: pickEpisode() counts it, and the line after it counts it again. *)
episodeTaken(st, i, ec1, episode, t, d) ==
    [st EXCEPT !.movers[i] = [@ EXCEPT !.episode = episode,
                                       !.episodeExpires = t + rand(2000, 6000, d.episodeLife)],
               !.ec = Incr(Incr(ec1, episode), episode)]

microChosen(st, i, t, d) == [st EXCEPT !.movers[i] = chooseNewMicro(@, t, d)]

(* if (m.episodeExpires != null && tNow > m.episodeExpires) { ... } *)
episodeExpiry(st, i, t, d) ==
    IF t > st.movers[i].episodeExpires
    THEN microChosen(
             chooseNewAnchorTarget(
                 episodeTaken(st, i, Decr(st.ec, st.movers[i].episode),
                              pickEpisode(Decr(st.ec, st.movers[i].episode), d.episode), t, d),
                 i, t, d),
             i, t, d)
    ELSE st

(* dtMs = dtN * 16.6667 *)
DtMs(dtN) == (dtN * 166667) \div 10000

(* m.anchorPosSx += m.anchorVelSx * dtMs *)
anchorAdvanced(st, i, dtN) ==
    [st EXCEPT !.movers[i].anchorPosSx =
                   @ + Div(st.movers[i].anchorVelSx * DtMs(dtN), AnchorVelScale)]

(* A variant of retargetIfDue that never chooses a target. *)
retargetSkipped(st, i, t, d) == st

(* if (m.anchorMoveEnd != null && tNow >= m.anchorMoveEnd) chooseNewAnchorTarget(...) *)
retargetIfDue(st, i, t, d) ==
    IF t >= st.movers[i].anchorMoveEnd THEN chooseNewAnchorTarget(st, i, t, d) ELSE st

anchorStep(st, i, t, dtN, d) == retargetIfDue(anchorAdvanced(st, i, dtN), i, t, d)

(* if (m.microNextSwitch == null || tNow > m.microNextSwitch) chooseNewMicro(m, tNow) *)
microStep(m, t, d) == IF t > m.microNextSwitch THEN chooseNewMicro(m, t, d) ELSE m

(* threatAlpha in 1/100: 0 unless CFG.moversFlee *)
threatAlpha(m) ==
    IF moversFlee
    THEN Max(0, 100 - (100 * Abs(m.sx)) \div ((MinLim * 75) \div 100))
    ELSE 0

(* A variant of microShortened without `if (remaining > desiredRem)`. *)
microRescheduled(m, t, desiredRem) == [m EXCEPT !.microNextSwitch = t + desiredRem]

(* The micro pattern ends early under threat. *)
microShortened(m, t, desiredRem) ==
    IF m.microNextSwitch - t > desiredRem
    THEN [m EXCEPT !.microNextSwitch = t + desiredRem]
    ELSE m

(* The anchor transition is shortened to `desired` ms when more remain. *)
anchorShortened(m, t, desired) ==
    IF m.anchorMoveEnd - t > desired
    THEN [m EXCEPT !.anchorVelSx =
                       Div((m.anchorTargetSx - m.anchorPosSx) * AnchorVelScale,
                           Max(desired, 1)),
                   !.anchorMoveEnd = t + desired,
                   !.anchorMoveDuration = desired]
    ELSE m

(* desired = anchorMoveDuration * (1 - 0.3 * threatAlpha) / macroSpeed *)
desiredAnchorMs(m) ==
    (m.anchorMoveDuration * (1000 - 3 * threatAlpha(m)))
        \div (100 * EPISODES[m.episode].macroSpeed)

shortenStep(m, t) ==
    anchorShortened(microShortened(m, t, (m.microDuration * (200 - threatAlpha(m))) \div 200),
                    t, desiredAnchorMs(m))

(* if (threatAlpha > 0.45 && Math.random() < feintChance * threatAlpha * 0.3):
   d.feint is the outcome of the roll, d.feintChoice = Math.floor(Math.random() * 3) *)
feintStep(m, t, d) ==
    IF threatAlpha(m) > 45 /\ d.feint
    THEN IF d.feintChoice = 0 THEN [m EXCEPT !.anchorExpires = t]
         ELSE IF d.feintChoice = 1
              THEN [m EXCEPT !.phaseFlipUntil = t + rand(200, 500, d.flipDur)]
              ELSE [m EXCEPT !.zigZagUntil = t + rand(250, 600, d.zigDur)]
    ELSE m

timersStep(st, i, t, d) ==
    [st EXCEPT !.movers[i] = feintStep(shortenStep(microStep(@, t, d), t), t, d)]

(* The movers that enter the separation and the predictive-avoidance sums of
   mover i: `if (j === i) continue; if (other.dead) continue;` *)
avoidedOthers(ms, i) == {j \in 1..Len(ms) : j # i /\ ~ms[j].dead}

(* One term of the separation sum, in 1/VelScale px per frame. *)
separationTerm(m, other, dxs) ==
    IF Abs(dxs) < m.r + other.r + 55
    THEN Sign(dxs) * (((m.r + other.r + 55 - Abs(dxs)) * 80 * moversAvoid)
                          \div (m.r + other.r + 55))
    ELSE 0

(* One term of the predictive sum.  In the slice sy = 0 the closest approach is
   the point of contact: fx = relX + relVx * ttc = 0, so evX = 0 / 0.0001 = 0. *)
predictiveTerm(m, other, relX, relVx) ==
    IF relVx = 0 THEN 0
    ELSE IF -(relX * relVx) > 0 /\ -(relX * relVx) * 2 < relVx * relVx
         THEN 0 * (m.r + other.r + 50) * 50 * moversAvoid
         ELSE 0

RECURSIVE avoidanceSum(_, _, _, _, _)
avoidanceSum(ms, scr, i, others, j) ==
    IF j > Len(ms) THEN 0
    ELSE (IF j \in others
          THEN separationTerm(ms[i], ms[j], scr[i] - scr[j])
               + predictiveTerm(ms[i], ms[j], scr[i] - scr[j], ms[i].vx - ms[j].vx)
          ELSE 0)
         + avoidanceSum(ms, scr, i, others, j + 1)

(* A variant of fleeTerm without the test of CFG.moversFlee. *)
fleeTermUngated(m, sx) ==
    IF m.escapeBoost > 0
    THEN Sign(sx) * ((8 * moversSpeed * 80
                      * (IF Abs(sx) < (MinLim * 7) \div 10
                         THEN 100 - (100 * Abs(sx)) \div ((MinLim * 7) \div 10)
                         ELSE 100)
                      * (100 + m.escapeBoost)) \div 10000)
    ELSE 0

(* The flee force on desVx, in 1/VelScale px per frame, for a player that
   stands still (playerSpeed = 0): fleeActive needs escapeBoost > 0, baseFleeV
   is 8 * moversSpeed, the radial factor is 0.8, and the lateral part has no
   x component in the slice sy = 0. *)
fleeTerm(m, sx) ==
    IF moversFlee /\ m.escapeBoost > 0
    THEN Sign(sx) * ((8 * moversSpeed * 80
                      * (IF Abs(sx) < (MinLim * 7) \div 10
                         THEN 100 - (100 * Abs(sx)) \div ((MinLim * 7) \div 10)
                         ELSE 100)
                      * (100 + m.escapeBoost)) \div 10000)
    ELSE 0

(* desVx: the pull towards anchor + offset, the flee force, the noise, and the
   escape boost when flee mode is off *)
desiredVx(m, targetSx, sx, d) ==
    IF ~moversFlee /\ m.escapeBoost > 0
    THEN Div(((targetSx - sx) * 6 + fleeTerm(m, sx) + d.noise) * (100 + m.escapeBoost), 100)
    ELSE (targetSx - sx) * 6 + fleeTerm(m, sx) + d.noise

(* if (Math.hypot(svx, svy) < 0.0005) the old velocity decays instead *)
steer(sv, vScr) == IF sv = 0 THEN Div(vScr * 7, 10) ELSE sv

(* The cap of the speed at 8 * baseSpeed *)
capSpeed(sv) ==
    IF Abs(sv) > 8 * moversSpeed * VelScale THEN Sign(sv) * 8 * moversSpeed * VelScale ELSE sv

(* A variant of contained that lets the mover through the wall. *)
uncontained(m, sx, svx, bx) == [m EXCEPT !.sx = sx, !.vx = svx]

(* Containment in [-bx, bx] and the published position and velocity *)
contained(m, sx, svx, bx) ==
    IF sx < -bx THEN [m EXCEPT !.sx = -bx, !.vx = IF svx < 0 THEN 0 ELSE svx]
    ELSE IF sx > bx THEN [m EXCEPT !.sx = bx, !.vx = IF svx > 0 THEN 0 ELSE svx]
    ELSE [m EXCEPT !.sx = sx, !.vx = svx]

integrated(m, sx, svx, dtN) == contained(m, sx + Div(svx * dtN, VelScale), svx, limX - m.r)

(* From the micro offset `off` to the published position and velocity. *)
moved(ms, scr, i, off, dtN, d) ==
    integrated(off.m, scr[i],
               capSpeed(steer(desiredVx(off.m, off.m.anchorPosSx + off.x, scr[i], d)
                              + avoidanceSum(ms, scr, i, avoidedOthers(ms, i), 1),
                              off.m.vx)),
               dtN)

moveStep(st, scr, i, t, dtN, d) ==
    setMover(st, i, moved(st.movers, scr, i, computeMicroOffset(st.movers[i], t, d), dtN, d))

(* The body of `for (let i = 0; ...)` for one mover. *)
updateMover(st, scr, i, t, dtN, d) ==
    IF st.movers[i].dead THEN st
    ELSE moveStep(
             timersStep(
                 anchorStep(episodeExpiry(roleExpiry(heal(st, i, t), i, t, d), i, t, d),
                            i, t, dtN, d),
                 i, t, d),
             scr, i, t, dtN, d)

RECURSIVE updateLoop(_, _, _, _, _, _)
updateLoop(st, scr, i, t, dtN, d) ==
    IF i > Len(st.movers) THEN st
    ELSE updateLoop(updateMover(st, scr, i, t, dtN, d), scr, i + 1, t, dtN, d)

(* moversScr: the screen positions before the loop *)
moversScr(ms) == [j \in 1..Len(ms) |-> ms[j].sx]

(* decayHeatMap() and the occupancy of the live movers *)
heatStep(st) == [st EXCEPT !.heat = occupyHeat(decayHeatMap(@), st.movers, 1)]

(* A variant of frame that decays the heat map after the loop. *)
frameDecayLast(s0, t, dtN, d) ==
    heatStep(updateLoop(s0, moversScr(s0.movers), 1, t, dtN, d))

(* updateMovers from the snapshot moversScr on *)
frame(s0, t, dtN, d) == updateLoop(heatStep(s0), moversScr(s0.movers), 1, t, dtN, d)

(* updateMovers after its ensureMoversCount() *)
framed(s0, c, t, dtN, d) ==
    IF ~c.moversEnabled \/ Len(s0.movers) = 0 THEN s0 ELSE frame(s0, t, dtN, d)

(* updateMovers(dtN) at clock t *)
updateMovers(st, c, t, dtN, d) == framed(ensureMoversCount(st, c, t, d), c, t, dtN, d)

----------------------------------------------------------------------------
(* hitTestMovers and the mover branch of shoot (registerHit) *)

(* A variant of hitTestMovers without `if (m.dead) continue`. *)
hitTestAny(ms, c) ==
    LET under == {i \in 1..Len(ms) : Abs(ms[i].sx) < ms[i].r}
    IN IF ~c.moversEnabled \/ Len(ms) = 0 \/ under = {} THEN -1
       ELSE (CHOOSE i \in under : \A j \in under : i <= j) - 1

(* A variant of hitTestMovers whose loop runs from the last mover down. *)
hitTestFromLast(ms, c) ==
    LET under == {i \in 1..Len(ms) : ~ms[i].dead /\ Abs(ms[i].sx) < ms[i].r}
    IN IF ~c.moversEnabled \/ Len(ms) = 0 \/ under = {} THEN -1
       ELSE (CHOOSE i \in under : \A j \in under : i >= j) - 1

(* for (let i = 0; ...) { if (m.dead) continue; if (Math.hypot(dx, dy) < m.r) return i; }
   return -1;   from the 1-based position i on, with the 0-based result *)
RECURSIVE hitScan(_, _)
hitScan(ms, i) ==
    IF i > Len(ms) THEN -1
    ELSE IF ms[i].dead THEN hitScan(ms, i + 1)
    ELSE IF Abs(ms[i].sx) < ms[i].r THEN i - 1
    ELSE hitScan(ms, i + 1)

(* hitTestMovers(): 0-based index of the first live mover under the crosshair, or -1 *)
hitTestMovers(ms, c) ==
    IF ~c.moversEnabled \/ Len(ms) = 0 THEN -1 ELSE hitScan(ms, 1)

(* esc of shoot for the new hit count, in 1/100 *)
escapeBoostFor(hits) ==
    IF hits = 1 THEN moversHit1Boost
    ELSE IF hits >= 2 THEN moversHit1Boost + moversHit2Boost
    ELSE 0

(* A variant of hitMover that counts a hit twice. *)
hitMoverTwice(m, t) ==
    [m EXCEPT !.hits = @ + 2, !.lastHitTime = t, !.escapeBoost = escapeBoostFor(m.hits + 2)]

(* m.hits = (m.hits | 0) + 1; m.lastHitTime = t; m.escapeBoost = esc *)
hitMover(m, t) ==
    [m EXCEPT !.hits = @ + 1, !.lastHitTime = t, !.escapeBoost = escapeBoostFor(m.hits + 1)]

(* A variant of exhausted that lets the fourth hit through. *)
exhaustedLate(hits) == hits > MOVERS_MAX_HITS + 1

(* if (m.hits >= MOVERS_MAX_HITS) *)
exhausted(hits) == hits >= MOVERS_MAX_HITS

(* A variant of exhaustedMover that ignores CFG.regenOnHit. *)
exhaustedMoverDies(st, i, m, c, t, d) ==
    setMover(st, i, [m EXCEPT !.dead = TRUE, !.lastHitTime = 0])

(* The branch of an exhausted mover m, whose hits are MOVERS_MAX_HITS *)
exhaustedMover(st, i, m, c, t, d) ==
    IF c.regenOnHit
    THEN respawned(st, i, respawnMover(m, st.rc, st.ec, t, d))
    ELSE setMover(st, i, [m EXCEPT !.dead = TRUE, !.lastHitTime = 0])

(* shoot() when hitTestMovers() returned mi, at clock t. *)
registerHit(st, c, mi, t, d) ==
    IF ~exhausted(st.movers[mi + 1].hits + 1)
    THEN setMover(st, mi + 1, hitMover(st.movers[mi + 1], t))
    ELSE exhaustedMover(st, mi + 1,
                        [hitMover(st.movers[mi + 1], t) EXCEPT !.hits = MOVERS_MAX_HITS],
                        c, t, d)

----------------------------------------------------------------------------
(* The handlers *)

World == [movers |-> movers, rc |-> roleCounts, ec |-> episodeCounts, heat |-> heatMap]

(* CFG.moversCount = n, the assignment of ensureMoversCount *)
ensuredCfg(c) == [c EXCEPT !.moversCount = targetCount(c)]

(* The sum of a pool's counts *)
poolTotal(names, counts) == CumSum(names, counts, Len(names))

(* No handler runs once a pool's counts sum to cap. *)
PoolsBelow(cap) ==
    poolTotal(RoleNames, roleCounts) < cap /\ poolTotal(EpisodeNames, episodeCounts) < cap

NoDraw == [role |-> 0, episode |-> 0, pattern |-> 0, tier |-> 0, sx |-> 0, vx |-> 0,
           microDur |-> 0, roleLife |-> 0, episodeLife |-> 0, dna |-> 0, cand |-> <<>>,
           jitter |-> 0, anchorDur |-> 0, pt |-> 0, noise |-> 0, feint |-> FALSE,
           feintChoice |-> 0, flipDur |-> 0, zigDur |-> 0, zz |-> 0]

(* What the last handler did: its name, the slot shoot hit (0-based, or -1),
   whether that hit exhausted the mover, whether respawnAllMovers ran, the
   slots the frame healed, whether the call ended in an exception, and the
   draws of the frame. *)
Did(op, d) == [op |-> op, idx |-> -1, exhausted |-> FALSE, respawnedAll |-> FALSE,
               healed |-> {}, threw |-> FALSE, d |-> IF op = "update" THEN d ELSE NoDraw]

Commit(s, c, l) ==
    /\ movers' = s.movers
    /\ roleCounts' = s.rc
    /\ episodeCounts' = s.ec
    /\ heatMap' = s.heat
    /\ cfg' = c
    /\ last' = l

(* CFG of config.js *)
defaults ==
    [moversEnabled |-> TRUE, moversCount |-> 3, regenOnHit |-> TRUE, moversFlee |-> FALSE]

emptyWorld ==
    [movers |-> <<>>,
     rc |-> [n \in {RoleNames[k] : k \in 1..Len(RoleNames)} |-> 0],
     ec |-> [n \in {EpisodeNames[k] : k \in 1..Len(EpisodeNames)} |-> 0],
     heat |-> [c \in 1..HEAT_COLS |-> 0]]

(* The page in world w under configuration c at clock 0 *)
InitAt(w, c, l) ==
    /\ movers = w.movers
    /\ roleCounts = w.rc
    /\ episodeCounts = w.ec
    /\ heatMap = w.heat
    /\ cfg = c
    /\ now = 0
    /\ last = l

Init == InitAt(emptyWorld, defaults, Did("init", NoDraw))

(* ensureMoversCount(), as main calls it before the loop starts *)
EnsureCount(D, cap) ==
    \E d \in D :
        /\ PoolsBelow(cap)
        /\ Commit(ensureMoversCount(World, cfg, now, d), ensuredCfg(cfg), Did("ensureCount", d))
        /\ UNCHANGED now

(* dtN = clamp((t - state.lastFrameMs) / 16.6667, 0.25, 3) for a frame of
   `step` ms; every step of the model is long enough for the lower clamp not
   to apply. *)
frameDtN(step) == clamp((step * 10000) \div 166667, 1, 3)

(* A variant of allDead that is content with one dead mover. *)
someDead(ms, c) == ~c.regenOnHit /\ Len(ms) > 0 /\ \E i \in 1..Len(ms) : ms[i].dead

(* const mDead = state.movers.length > 0 && state.movers.every(mv => mv.dead) *)
allDead(ms, c) == ~c.regenOnHit /\ Len(ms) > 0 /\ \A i \in 1..Len(ms) : ms[i].dead

(* if (!CFG.regenOnHit) { if (mDead) respawnAllMovers(); } *)
allDeadRespawn(up, c, t, d) == IF allDead(up.movers, c) THEN respawnAllMovers(up, c, t, d) ELSE up

(* The slots of ms that the frame at clock t heals: those that outlive the
   frame's ensureMoversCount() *)
healedIn(ms, c, t) ==
    {i \in 1..Len(ms) : i <= targetCount(c) /\ ~ms[i].dead /\ healDue(ms[i], t)}

CommitUpdate(up, c, t, d) ==
    Commit(allDeadRespawn(up, c, t, d), c,
           [Did("update", d) EXCEPT !.respawnedAll = allDead(up.movers, c),
                                    !.healed = healedIn(movers, c, t)])

(* update(): updateMovers(dtN), then respawnAllMovers() when regenOnHit is off
   and every mover is dead. *)
Update(D, Steps, cap) ==
    \E d \in D, step \in Steps :
        /\ now + step <= MaxTime
        /\ PoolsBelow(cap)
        /\ CommitUpdate(updateMovers(World, cfg, now + step, frameDtN(step), d),
                        ensuredCfg(cfg), now + step, d)
        /\ now' = now + step

CommitShoot(mi, d) ==
    Commit(registerHit(World, cfg, mi, now, d), cfg,
           [Did("shoot", d) EXCEPT !.idx = mi,
                                   !.exhausted = exhausted(movers[mi + 1].hits + 1)])

(* shoot() when hitTestMovers() finds a mover *)
Shoot(D, cap) ==
    \E d \in D :
        /\ PoolsBelow(cap)
        /\ hitTestMovers(movers, cfg) >= 0
        /\ CommitShoot(hitTestMovers(movers, cfg), d)
        /\ UNCHANGED now

(* respawnAllMovers() *)
RespawnAll(D, cap) ==
    \E d \in D :
        /\ PoolsBelow(cap)
        /\ Commit(respawnAllMovers(World, cfg, now, d), ensuredCfg(cfg),
                  [Did("respawnAll", d) EXCEPT !.respawnedAll = TRUE])
        /\ UNCHANGED now

(* ensureMoversCount(); for (i ...) respawnMover(state.movers[i]) *)
ensureAndRespawn(st, c, t, d) == respawnEach(ensureMoversCount(st, c, t, d), 1, t, d)

(* The space key *)
KeySpace(D, cap) ==
    \E d \in D :
        /\ PoolsBelow(cap)
        /\ Commit(ensureAndRespawn(World, cfg, now, d), ensuredCfg(cfg), Did("keySpace", d))
        /\ UNCHANGED now

(* The handler of the moversCount slider once CFG.moversCount = el.value | 0 *)
countSet(c, d) ==
    Commit(ensureAndRespawn(World, c, now, d), ensuredCfg(c), Did("setMoversCount", d))

SetMoversCount(D, Counts, cap) ==
    \E d \in D, v \in Counts :
        /\ PoolsBelow(cap)
        /\ countSet([cfg EXCEPT !.moversCount = v], d)
        /\ UNCHANGED now

(* The handler of the moversEnabled checkbox once CFG.moversEnabled is set *)
enabledSet(c, d) ==
    Commit(IF c.moversEnabled
           THEN ensureAndRespawn(World, c, now, d)
           ELSE ensureMoversCount(World, c, now, d),
           ensuredCfg(c), Did("setMoversEnabled", d))

SetMoversEnabled(D, cap) ==
    \E d \in D :
        /\ PoolsBelow(cap)
        /\ enabledSet([cfg EXCEPT !.moversEnabled = ~cfg.moversEnabled], d)
        /\ UNCHANGED now

(* The regenOnHit checkbox *)
SetRegenOnHit ==
    /\ cfg' = [cfg EXCEPT !.regenOnHit = ~cfg.regenOnHit]
    /\ last' = Did("setRegenOnHit", NoDraw)
    /\ UNCHANGED <<movers, roleCounts, episodeCounts, heatMap, now>>

(* The moversFlee checkbox: CFG.moversFlee = !!el.checked *)
SetMoversFlee ==
    /\ cfg' = [cfg EXCEPT !.moversFlee = ~cfg.moversFlee]
    /\ last' = Did("setMoversFlee", NoDraw)
    /\ UNCHANGED <<movers, roleCounts, episodeCounts, heatMap, now>>

----------------------------------------------------------------------------
(* The lifecycle specification: hits, heal, exhaustion, respawn, from the
   state the page is in once main has called ensureMoversCount() and the
   moversCount slider has been set to LifeCount, all at clock 0.  The draws
   place a spawned mover under the crosshair (sx = 2) or at the left wall. *)

ClockSteps == {2000}

LifeDraws ==
    [role : {0}, episode : {0}, pattern : {0}, tier : {0}, sx : {0, 2}, vx : {0},
     microDur : {0}, roleLife : {0}, episodeLife : {3}, dna : {1}, cand : {<<3, 12>>},
     jitter : {2}, anchorDur : {0}, pt : {0}, noise : {0}, feint : {FALSE},
     feintChoice : {0}, flipDur : {0}, zigDur : {0}, zz : {0}]

FrameDraws == {d \in LifeDraws : d.sx = 2}

(* main's ensureMoversCount(), then the slider's handler with value n *)
configured(d, n) ==
    ensureAndRespawn(ensureMoversCount(emptyWorld, defaults, 0, d),
                     [defaults EXCEPT !.moversCount = n], 0, d)

InitLife ==
    \E d \in FrameDraws :
        InitAt(configured(d, LifeCount), [defaults EXCEPT !.moversCount = LifeCount],
               Did("setMoversCount", d))

Next ==
    \/ Update(FrameDraws, ClockSteps, MaxPool)
    \/ Shoot(LifeDraws, MaxPool)
    \/ RespawnAll(LifeDraws, MaxPool)
    \/ SetRegenOnHit

Spec == InitLife /\ [][Next]_vars

----------------------------------------------------------------------------
(* Properties of the lifecycle specification *)

Slots == 1..Len(movers)

(* The slots that hold the same object before and after a step *)
Kept == {i \in Slots : i <= Len(movers') /\ movers'[i].id = movers[i].id}

(* C2: the hit count of every mover is within 0..MOVERS_MAX_HITS in every
   reachable state. *)
C2_HitsInRange == \A i \in Slots : movers[i].hits \in 0..MOVERS_MAX_HITS

(* A mover has taken MOVERS_MAX_HITS hits and another one has been hit. *)
C2_Witness ==
    \E i, j \in Slots : movers[i].hits = MOVERS_MAX_HITS /\ movers[j].hits \in 1..2

(* C3 as stated: an update that runs at least HEAL_INTERVAL_MS after the last
   hit of a live mover with hits > 0 leaves it with hits = 0 and
   escapeBoost = 0, and no update heals earlier than that. *)
C3_HealAtInterval ==
    [][last'.op = "update" =>
          \A i \in Kept :
              (~movers[i].dead /\ movers[i].hits > 0) =>
                  /\ (now' - movers[i].lastHitTime >= HEAL_INTERVAL_MS
                         => movers'[i].hits = 0 /\ movers'[i].escapeBoost = 0)
                  /\ (movers'[i].hits = 0 /\ ~last'.respawnedAll
                         => now' - movers[i].lastHitTime >= HEAL_INTERVAL_MS)]_vars

(* C4: update never increases a hit count; a hit count increases only in
   shoot, by exactly 1, on the mover that was hit; it decreases only through
   a heal or a respawn; and with every count at 0 an update leaves every
   count at 0. *)
C4_HitMonotonicity ==
    [][/\ last'.op = "update" => \A i \in Kept : movers'[i].hits <= movers[i].hits
       /\ \A i \in Kept :
              movers'[i].hits > movers[i].hits =>
                  /\ last'.op = "shoot"
                  /\ last'.idx = i - 1
                  /\ movers'[i].hits = movers[i].hits + 1
       /\ \A i \in Kept :
              movers'[i].hits < movers[i].hits =>
                  \/ last'.op = "update" /\ (i \in last'.healed \/ last'.respawnedAll)
                  \/ last'.op = "shoot" /\ last'.idx = i - 1 /\ last'.exhausted
                  \/ last'.op \in {"respawnAll", "keySpace", "setMoversCount",
                                   "setMoversEnabled"}
       /\ (last'.op = "update" /\ \A i \in Slots : movers[i].hits = 0)
              => \A j \in 1..Len(movers') : movers'[j].hits = 0]_vars

(* An update has run over a mover with two hits, and has healed nobody. *)
C4_Witness ==
    /\ last.op = "update"
    /\ last.healed = {}
    /\ \E i \in Slots : movers[i].hits = 2 /\ ~movers[i].dead

(* The object a spawn at clock t yields for some draws, under the name id *)
FreshAt(m, t, id, D) == \E d \in D : m = moverObject(m.role, m.episode, t, d, id)

(* C5: with regenOnHit on, the shoot that brings a mover to MOVERS_MAX_HITS
   leaves the same slot and object alive with hits = 0, escapeBoost = 0 and
   the anchor, micro pattern, role, episode and DNA of a spawn at that clock;
   no mover has MOVERS_MAX_HITS hits after a shoot that ran with regenOnHit
   on unless it had them before. *)
C5_ExhaustionRegen ==
    [][(last'.op = "shoot" /\ cfg.regenOnHit) =>
          /\ Len(movers') = Len(movers)
          /\ \A i \in Slots :
                 movers'[i].hits = MOVERS_MAX_HITS => movers[i].hits = MOVERS_MAX_HITS
          /\ last'.exhausted =>
                 /\ last'.idx + 1 \in Kept
                 /\ ~movers'[last'.idx + 1].dead
                 /\ movers'[last'.idx + 1].hits = 0
                 /\ movers'[last'.idx + 1].escapeBoost = 0
                 /\ movers'[last'.idx + 1].lastHitTime = 0
                 /\ FreshAt(movers'[last'.idx + 1], now, movers[last'.idx + 1].id, LifeDraws)
                 /\ \A j \in Slots \ {last'.idx + 1} : movers'[j] = movers[j]]_vars

(* A shoot with regenOnHit on has just exhausted a mover, which is alive. *)
C5_Witness ==
    /\ last.op = "shoot"
    /\ last.exhausted
    /\ cfg.regenOnHit
    /\ ~movers[last.idx + 1].dead
    /\ movers[last.idx + 1].hits = 0

(* C6: with regenOnHit off, the shoot that brings a mover to MOVERS_MAX_HITS
   sets its dead flag; hitTestMovers never returns the slot of a dead mover;
   and a dead mover is left as it is by every handler but respawnAllMovers
   and the handlers that respawn every mover. *)
C6_ExhaustionDead ==
    [][/\ (last'.op = "shoot" /\ last'.exhausted /\ ~cfg.regenOnHit) =>
              /\ last'.idx + 1 \in Kept
              /\ movers'[last'.idx + 1].dead
              /\ movers'[last'.idx + 1].hits = MOVERS_MAX_HITS
       /\ hitTestMovers(movers, cfg) >= 0 => ~movers[hitTestMovers(movers, cfg) + 1].dead
       /\ hitTestMovers(movers', cfg') >= 0 => ~movers'[hitTestMovers(movers', cfg') + 1].dead
       /\ (last'.op \in {"update", "shoot", "ensureCount", "setRegenOnHit"}
           /\ ~last'.respawnedAll) =>
              \A i \in Slots :
                  (movers[i].dead /\ i <= Len(movers')) => movers'[i] = movers[i]]_vars

(* An update that respawned nothing has run over a dead mover while another
   mover is alive. *)
C6_Witness ==
    /\ last.op = "update"
    /\ ~last.respawnedAll
    /\ \E i, j \in Slots : movers[i].dead /\ ~movers[j].dead

(* C7: every live mover has escapeBoost = 0 when hits = 0, moversHit1Boost
   when hits = 1 and moversHit1Boost + moversHit2Boost when hits >= 2. *)
C7_BoostOfHits ==
    \A i \in Slots :
        ~movers[i].dead =>
            /\ movers[i].hits = 0 => movers[i].escapeBoost = 0
            /\ movers[i].hits = 1 => movers[i].escapeBoost = moversHit1Boost
            /\ movers[i].hits >= 2 => movers[i].escapeBoost = moversHit1Boost + moversHit2Boost

(* An update has healed a mover. *)
C7_Witness ==
    /\ last.op = "update"
    /\ cfg.regenOnHit
    /\ \E i \in last.healed : movers[i].hits = 0 /\ movers[i].escapeBoost = 0

(* The world without its dead movers *)
withoutDead(st) == [st EXCEPT !.movers = SelectSeq(@, LAMBDA m : ~m.dead)]

(* C8 as stated: an update leaves every dead mover as it is, and what it
   does to the live movers, the heat map and the pools is what it does to
   them in the world that has no dead mover. *)
C8_DeadMoverInert ==
    [][(last'.op = "update" /\ ~last'.respawnedAll /\ Len(movers') = Len(movers)) =>
          /\ \A i \in Slots : movers[i].dead => movers'[i] = movers[i]
          /\ (\E i \in Slots : ~movers[i].dead) =>
                 withoutDead(World') =
                     frame(withoutDead(World), now', frameDtN(now' - now), last'.d)]_vars

(* C9: after respawnAllMovers the collection has CFG.moversCount movers, each
   with dead = false, hits = 0, escapeBoost = 0 and lastHitTime = 0, and
   every object that was in the collection is still in its slot. *)
C9_RespawnAllResets ==
    [][last'.respawnedAll =>
          /\ Len(movers') = cfg'.moversCount
          /\ Len(movers') = targetCount(cfg)
          /\ \A i \in 1..Len(movers') :
                 /\ ~movers'[i].dead
                 /\ movers'[i].hits = 0
                 /\ movers'[i].escapeBoost = 0
                 /\ movers'[i].lastHitTime = 0
          /\ \A i \in Slots : i <= Len(movers') => movers'[i].id = movers[i].id]_vars

(* The frame has found every mover dead and has respawned them all. *)
C9_Witness ==
    /\ last.op = "update"
    /\ last.respawnedAll
    /\ Len(movers) = LifeCount
    /\ \A i \in Slots : ~movers[i].dead /\ movers[i].hits = 0

----------------------------------------------------------------------------
(* The pool specification: the role and episode pools from the page's first
   state on.  The slider of the movers' count goes between its two ends, the
   draws take the last role and the first episode on offer and place every
   spawn under the crosshair, and a frame may come PoolSteps ms late, which
   is past the episodes' expiry. *)

PoolSteps == {8000}

PoolCounts == {0, MAX_MOVERS}

PoolDraws ==
    [role : {RandDen - 1}, episode : {0}, pattern : {0}, tier : {0}, sx : {2}, vx : {0},
     microDur : {0}, roleLife : {0}, episodeLife : {3}, dna : {1}, cand : {<<3, 12>>},
     jitter : {2}, anchorDur : {0}, pt : {0}, noise : {0}, feint : {FALSE},
     feintChoice : {0}, flipDur : {0}, zigDur : {0}, zz : {0}]

NextPools ==
    \/ EnsureCount(PoolDraws, PoolCap)
    \/ Update(PoolDraws, PoolSteps, PoolCap)
    \/ Shoot(PoolDraws, PoolCap)
    \/ RespawnAll(PoolDraws, PoolCap)
    \/ SetMoversCount(PoolDraws, PoolCounts, PoolCap)

SpecPools == Init /\ [][NextPools]_vars

(* The movers of the collection that hold role or episode name *)
holders(field, name) == {i \in Slots : movers[i][field] = name}

(* C1 as stated: no role and no episode is held by more than ROLE_MAX_COUNT,
   respectively EPISODE_MAX_COUNT, movers of the collection at the same time. *)
C1_CapPerRoleAndEpisode ==
    /\ \A k \in 1..Len(RoleNames) :
           Cardinality(holders("role", RoleNames[k])) <= ROLE_MAX_COUNT
    /\ \A k \in 1..Len(EpisodeNames) :
           Cardinality(holders("episode", EpisodeNames[k])) <= EPISODE_MAX_COUNT

----------------------------------------------------------------------------
(* The count specification: ensureMoversCount under the slider of the
   movers' count, the moversEnabled checkbox, the space key and shots, from
   the page's first state on, at clock 0. *)

CountDraws ==
    [role : {0}, episode : {0}, pattern : {0}, tier : {0}, sx : {2}, vx : {0},
     microDur : {0}, roleLife : {0}, episodeLife : {3}, dna : {1}, cand : {<<3, 12>>},
     jitter : {2}, anchorDur : {0}, pt : {0}, noise : {0}, feint : {FALSE},
     feintChoice : {0}, flipDur : {0}, zigDur : {0}, zz : {0}]

NextCount ==
    \/ EnsureCount(CountDraws, CountCap)
    \/ Shoot(CountDraws, CountCap)
    \/ SetMoversCount(CountDraws, 0..MAX_MOVERS, CountCap)
    \/ SetMoversEnabled(CountDraws, CountCap)
    \/ KeySpace(CountDraws, CountCap)

SpecCount == Init /\ [][NextCount]_vars

(* The configurations ensureMoversCount is examined under: a count from one
   below to one above the slider's range, movers enabled or not *)
CountConfigs ==
    [moversEnabled : BOOLEAN, moversCount : (-1)..(MAX_MOVERS + 1), regenOnHit : {TRUE},
     moversFlee : {FALSE}]

(* The movers `out` reconcile the movers ms to configuration c: the length is
   clamp(count, 0, 5), or 0 when disabled; the slots below the new length
   that ms had hold what they held; the other slots hold new objects, alive
   and unhit. *)
reconciled(ms, c, out) ==
    /\ Len(out) = (IF c.moversEnabled THEN Max(0, Min(5, c.moversCount)) ELSE 0)
    /\ \A i \in 1..Len(out) :
           IF i <= Len(ms) THEN out[i] = ms[i]
           ELSE /\ ~out[i].dead
                /\ out[i].hits = 0
                /\ \A j \in 1..Len(ms) : out[i].id # ms[j].id

(* C10: ensureMoversCount leaves clamp(configured count, 0, 5) movers when
   movers are enabled and none when they are disabled; it appends newly
   spawned movers or removes movers from the end, and every slot below the
   new length keeps its mover and the mover's state.  Checked for the call
   main makes, for the call of the moversEnabled checkbox that disables, and
   for ensureMoversCount applied to every reachable world under every
   configuration of CountConfigs. *)
C10_EnsureCountReconciles ==
    [][/\ \A c \in CountConfigs, d \in CountDraws :
              reconciled(movers, c, ensureMoversCount(World, c, now, d).movers)
       /\ last'.op = "ensureCount" => reconciled(movers, cfg, movers')
       /\ (last'.op = "setMoversEnabled" /\ cfg.moversEnabled) => movers' = <<>>
       /\ last'.op \in {"ensureCount", "setMoversCount", "setMoversEnabled", "keySpace"} =>
              /\ Len(movers') = cfg'.moversCount
              /\ \A i \in Slots : i <= Len(movers') => movers'[i].id = movers[i].id]_vars

(* ensureMoversCount has run over the three movers it spawned in the page's
   first state, one of which has been hit since, and has kept them. *)
C10_Witness ==
    /\ last.op = "ensureCount"
    /\ Len(movers) = defaults.moversCount
    /\ \A i \in Slots : movers[i].id = i
    /\ \E i \in Slots : movers[i].hits > 0

----------------------------------------------------------------------------
(* The arena specification: ensureMoversCount and updateMovers while
   state.canvas is null (state.js exports `canvas = null` until initDomRefs
   sets it), next to the same calls with the canvas in place. *)

ArenaCap == 6        \* MaxPool of the arena specification

(* ensureMoversCount() while state.canvas is null: CFG.moversCount = n and
   the branches that spawn nothing run as ever; the first spawnMoverInWindow()
   reads canvas.width of null, a TypeError raised before any count or push. *)
ensureNoCanvas(st, c) ==
    IF targetCount(c) = 0 THEN [world |-> [st EXCEPT !.movers = <<>>], threw |-> FALSE]
    ELSE IF Len(st.movers) < targetCount(c) THEN [world |-> st, threw |-> TRUE]
    ELSE [world |-> popUntil(st, targetCount(c)), threw |-> FALSE]

(* updateMovers() after its ensureMoversCount() returned e, while state.canvas
   is null: past the early return, canvasRef.width of null is a TypeError
   raised before the heat map is touched. *)
framedNoCanvas(e, c) ==
    IF e.threw \/ ~c.moversEnabled \/ Len(e.world.movers) = 0 THEN e
    ELSE [e EXCEPT !.threw = TRUE]

updateNoCanvas(st, c) == framedNoCanvas(ensureNoCanvas(st, c), c)

CommitNoCanvas(op, e) ==
    Commit(e.world, ensuredCfg(cfg), [Did(op, NoDraw) EXCEPT !.threw = e.threw])

EnsureCountNoCanvas ==
    /\ CommitNoCanvas("ensureCountNoCanvas", ensureNoCanvas(World, cfg))
    /\ UNCHANGED now

UpdateNoCanvas(Steps) ==
    \E step \in Steps :
        /\ now + step <= MaxTime
        /\ CommitNoCanvas("updateNoCanvas", updateNoCanvas(World, cfg))
        /\ now' = now + step

NextArena ==
    \/ EnsureCount(CountDraws, ArenaCap)
    \/ EnsureCountNoCanvas
    \/ Update(CountDraws, ClockSteps, ArenaCap)
    \/ UpdateNoCanvas(ClockSteps)
    \/ SetMoversCount(CountDraws, {0, 2}, ArenaCap)

SpecArena == Init /\ [][NextArena]_vars

(* C11 as stated: a call of ensureMoversCount or updateMovers made while
   state.canvas is null raises no error and leaves the movers, the role and
   episode counts and the heat map as they were. *)
C11_NoCanvasNoOp ==
    [][last'.op \in {"ensureCountNoCanvas", "updateNoCanvas"} =>
          /\ ~last'.threw
          /\ UNCHANGED <<movers, roleCounts, episodeCounts, heatMap>>]_vars

----------------------------------------------------------------------------
(* The anchor specification: one mover and frames of 17 ms (dtN = 1), so that
   an anchor transition is walked frame by frame.  Each retarget draws a
   corner of the arena: the leftmost column with the jitter to the left, or
   the rightmost column with the jitter to the right. *)

AnchorSteps == {17}

AnchorDraws ==
    {d \in [role : {0}, episode : {0}, pattern : {0}, tier : {0}, sx : {2}, vx : {0},
            microDur : {0}, roleLife : {0}, episodeLife : {3}, dna : {1},
            cand : {<<0>>, <<HEAT_COLS - 1>>}, jitter : {0, RandDen - 1}, anchorDur : {0},
            pt : {0}, noise : {0}, feint : {FALSE}, feintChoice : {0}, flipDur : {0},
            zigDur : {0}, zz : {0}] :
        (d.cand = <<0>>) = (d.jitter = 0)}

InitAnchor ==
    \E d \in AnchorDraws :
        InitAt(configured(d, 1), [defaults EXCEPT !.moversCount = 1], Did("setMoversCount", d))

NextAnchor == Update(AnchorDraws, AnchorSteps, MaxPool)

SpecAnchor == InitAnchor /\ [][NextAnchor]_vars

(* C12 as stated: after every update the anchor of every mover lies within
   the arena half-width less the margin, |anchorPosSx| <= limX. *)
C12_AnchorContained == \A i \in Slots : Abs(movers[i].anchorPosSx) <= limX

----------------------------------------------------------------------------
(* The heat map, under the lifecycle specification *)

Cells == 1..HEAT_COLS

(* The cells of the anchors of the live movers of ms *)
occupiedCells(ms) ==
    {getCellForPos(ms[i].anchorPosSx) + 1 : i \in {j \in 1..Len(ms) : ~ms[j].dead}}

(* The cells of the anchor targets chosen at clock t by the live movers of ms *)
placedCells(ms, t) ==
    {getCellForPos(ms[i].anchorTargetSx) + 1 :
        i \in {j \in 1..Len(ms) : ~ms[j].dead /\ ms[j].anchorMoveStart = t}}

(* The placement events of an update step: the occupancy of the live movers
   the frame starts with and the targets chosen during the frame. *)
placementCells(before, after, l, t) ==
    IF l.op # "update" THEN {}
    ELSE occupiedCells(before)
             \cup (IF l.respawnedAll THEN {} ELSE placedCells(after, t))

(* C13: no heat cell is negative; a step raises a cell above its decayed value
   only when the cell holds the anchor of a live mover or is the cell of an
   anchor target chosen in that step, and every other cell a step changes is
   multiplied by 0.98. *)
C13_HeatInvariant ==
    [][\A c \in Cells :
          /\ heatMap[c] >= 0 /\ heatMap'[c] >= 0
          /\ \/ heatMap'[c] = heatMap[c]
             \/ heatMap'[c] = decayHeatMap(heatMap)[c]
             \/ /\ heatMap'[c] > decayHeatMap(heatMap)[c]
                /\ c \in placementCells(ensureMoversCount(World, cfg, now', last'.d).movers,
                                        movers', last', now')]_vars

(* An update has decayed the heat of a cell that no live anchor occupies and
   no target was placed in, while another cell holds the heat of a placement. *)
C13_Witness ==
    /\ last.op = "update"
    /\ \E c \in Cells :
          /\ heatMap[c] > 0
          /\ c \notin occupiedCells(movers) \cup placedCells(movers, now)
    /\ \E c \in Cells : heatMap[c] >= HEATMAP_INCREMENT
    /\ \E i \in Slots : movers[i].dead

(* C14 as stated: every update multiplies by 0.98 each heat cell that receives
   no increment in that frame, whatever the number of movers. *)
C14_DecayEveryUpdate ==
    [][last'.op = "update" =>
          \A c \in Cells \ placementCells(ensureMoversCount(World, cfg, now', last'.d).movers,
                                          movers', last', now') :
              heatMap'[c] = decayHeatMap(heatMap)[c]]_vars

----------------------------------------------------------------------------
(* hitTestMovers, under the lifecycle specification *)

(* The movers of the collection that are not dead and whose distance to the
   player is strictly less than their radius. *)
UnderCrosshair == {i \in Slots : ~movers[i].dead /\ Abs(movers[i].sx) < movers[i].r}

(* C15: hitTestMovers returns the lowest index of a mover that is not dead
   and strictly closer to the player than its radius, and -1 when there is no
   such mover, when the collection is empty or when movers are disabled. *)
C15_HitTestLowestLive ==
    /\ (cfg.moversEnabled /\ UnderCrosshair # {}) =>
           /\ hitTestMovers(movers, cfg) + 1 \in UnderCrosshair
           /\ \A j \in UnderCrosshair : hitTestMovers(movers, cfg) + 1 <= j
    /\ (~cfg.moversEnabled \/ Len(movers) = 0 \/ UnderCrosshair = {}) =>
           hitTestMovers(movers, cfg) = -1

(* A shot has killed the first mover; it stays under the crosshair, and the
   test returns the second mover. *)
C15_Witness ==
    /\ last.op = "shoot"
    /\ Len(movers) >= 2
    /\ movers[1].dead /\ Abs(movers[1].sx) < movers[1].r
    /\ hitTestMovers(movers, cfg) = 1

----------------------------------------------------------------------------
(* The offset specification: the anchor specification with the pattern value
   pt.x = 1.0 in every frame, so that the micro offset is as large as the
   tier allows. *)

OffsetDraws ==
    {d \in [role : {0}, episode : {0}, pattern : {0}, tier : {0}, sx : {2}, vx : {0},
            microDur : {0}, roleLife : {0}, episodeLife : {3}, dna : {1},
            cand : {<<0>>, <<HEAT_COLS - 1>>}, jitter : {0, RandDen - 1}, anchorDur : {0},
            pt : {10}, noise : {0}, feint : {FALSE}, feintChoice : {0}, flipDur : {0},
            zigDur : {0}, zz : {0}] :
        (d.cand = <<0>>) = (d.jitter = 0)}

InitOffset ==
    \E d \in OffsetDraws :
        InitAt(configured(d, 1), [defaults EXCEPT !.moversCount = 1], Did("setMoversCount", d))

NextOffset == Update(OffsetDraws, AnchorSteps, MaxPool)

SpecOffset == InitOffset /\ [][NextOffset]_vars

(* The offset computeMicroOffset returned for mover i in the update that led
   to the current state: the cache prevOffset is either untouched (blend in
   progress) or equal to that offset (blend over). *)
offsetOf(i) == computeMicroOffset(movers[i], now, last.d).x

(* C16 as stated: after every update, anchor + offset of every live mover
   lies inside the arena bounds, |anchorPosSx + offset| <= limX. *)
C16_OffsetInBounds ==
    last.op = "update" =>
        \A i \in Slots : ~movers[i].dead =>
            Abs(movers[i].anchorPosSx + offsetOf(i)) <= limX

----------------------------------------------------------------------------
(* The pool counts, under the count specification *)

(* C17 as stated: the count stored for each role is the number of movers of
   the collection that hold the role, and likewise for each episode. *)
C17_PoolCountsExact ==
    /\ \A k \in 1..Len(RoleNames) :
           roleCounts[RoleNames[k]] = Cardinality(holders("role", RoleNames[k]))
    /\ \A k \in 1..Len(EpisodeNames) :
           episodeCounts[EpisodeNames[k]] = Cardinality(holders("episode", EpisodeNames[k]))

----------------------------------------------------------------------------
(* The expiry specification: one mover spawned at clock 0, no frame for 7990
   ms (the page is in a hidden tab), then frames of 17 ms, up to ExpiryTime.
   The first frame finds the episode expired, the second one the role. *)

ExpiryTime == 9000

ExpirySteps(t) == IF t = 0 THEN {7990} ELSE AnchorSteps

(* update() as in Update, with the clock bound tmax *)
UpdateUntil(D, Steps, cap, tmax) ==
    \E d \in D, step \in Steps :
        /\ now + step <= tmax
        /\ PoolsBelow(cap)
        /\ CommitUpdate(updateMovers(World, cfg, now + step, frameDtN(step), d),
                        ensuredCfg(cfg), now + step, d)
        /\ now' = now + step

NextExpiry == UpdateUntil(AnchorDraws, ExpirySteps(now), MaxPool, ExpiryTime)

SpecExpiry == InitAnchor /\ [][NextExpiry]_vars

(* The update that led to the state (ms, t, l) found the role of ms[i]
   expired: m.roleExpires = tNow + rand(8000, 16000). *)
roleExpiredIn(ms, i, t, l) ==
    l.op = "update" /\ ~ms[i].dead /\ ms[i].roleExpires = t + rand(8000, 16000, l.d.roleLife)

(* Likewise for the episode: m.episodeExpires = tNow + rand(2000, 6000). *)
episodeExpiredIn(ms, i, t, l) ==
    l.op = "update" /\ ~ms[i].dead
        /\ ms[i].episodeExpires = t + rand(2000, 6000, l.d.episodeLife)

(* C18 as stated: the update in which the role or the episode of a mover
   expires chooses a new micro pattern; the update in which the episode
   expires chooses a new anchor target; and when the role expired in an update
   that chose no anchor target, the next update chooses one. *)
C18_ForcedExpiryTakesEffect ==
    [][\A i \in 1..Len(movers') :
          /\ roleExpiredIn(movers', i, now', last') => movers'[i].microStart = now'
          /\ episodeExpiredIn(movers', i, now', last') =>
                 /\ movers'[i].microStart = now'
                 /\ movers'[i].anchorMoveStart = now'
          /\ (i \in Slots /\ roleExpiredIn(movers, i, now, last)
                  /\ movers[i].anchorMoveStart # now
                  /\ last'.op = "update") =>
                 movers'[i].anchorMoveStart = now']_vars

----------------------------------------------------------------------------
(* The feint specification: one mover under the crosshair (threatAlpha = 1
   once flee mode is on), frames of 17 ms up to FeintTime, and the moversFlee
   checkbox.  A frame's feint roll succeeds or not; a successful roll draws
   one of the three feints. *)

FeintTime == 100

FeintDraws ==
    {d \in [role : {0}, episode : {0}, pattern : {0}, tier : {0}, sx : {2}, vx : {0},
            microDur : {0}, roleLife : {0}, episodeLife : {3}, dna : {1},
            cand : {<<0>>}, jitter : {0}, anchorDur : {0}, pt : {10}, noise : {0},
            feint : BOOLEAN, feintChoice : 0..2, flipDur : {0}, zigDur : {0}, zz : {10}] :
        ~d.feint => d.feintChoice = 0}

NextFeint ==
    \/ UpdateUntil(FeintDraws, AnchorSteps, MaxPool, FeintTime)
    \/ SetMoversFlee

SpecFeint == InitAnchor /\ [][NextFeint]_vars

(* C19 as stated: at no clock value are the phase-inversion feint and the
   zig-zag feint of a mover active together. *)
C19_FeintsExclusive ==
    \A i \in Slots : ~(now < movers[i].phaseFlipUntil /\ now < movers[i].zigZagUntil)

----------------------------------------------------------------------------
(* The threat specification: the anchor specification with flee mode on and
   the clock bound ThreatTime, so that the mover, spawned under the crosshair,
   starts at threatAlpha = 1 and loses the threat as it follows its anchor to
   a corner. *)

InitThreat ==
    \E d \in AnchorDraws :
        InitAt(configured(d, 1), [defaults EXCEPT !.moversCount = 1, !.moversFlee = TRUE],
               Did("setMoversCount", d))

ThreatTime == 7000

NextThreat == UpdateUntil(AnchorDraws, AnchorSteps, MaxPool, ThreatTime)

SpecThreat == InitThreat /\ [][NextThreat]_vars

(* C20: an update that chooses no anchor target for a mover leaves its
   anchorMoveEnd as it is or moves it to an earlier time, and an update that
   chooses no micro pattern for it does the same with microNextSwitch. *)
C20_SchedulesNeverExtended ==
    [][last'.op = "update" /\ ~last'.respawnedAll =>
          \A i \in Kept :
              /\ movers'[i].anchorMoveStart = movers[i].anchorMoveStart =>
                     movers'[i].anchorMoveEnd <= movers[i].anchorMoveEnd
              /\ movers'[i].microStart = movers[i].microStart =>
                     movers'[i].microNextSwitch <= movers[i].microNextSwitch]_vars

(* Under threat, an update has brought forward the end of an anchor
   transition that a retarget had scheduled and the switch of a micro pattern
   that chooseNewMicro had scheduled. *)
C20_Witness ==
    /\ last.op = "update"
    /\ \E i \in Slots :
          /\ threatAlpha(movers[i]) > 0
          /\ movers[i].anchorMoveStart > 0
          /\ movers[i].anchorMoveStart < now
          /\ movers[i].anchorMoveEnd <
                 movers[i].anchorMoveStart
                     + (rand(2000, 5000, 0) * 10) \div EPISODES[movers[i].episode].macroSpeed
          /\ movers[i].microStart > 0
          /\ movers[i].microNextSwitch < movers[i].microStart + MICRO_MIN_MS

----------------------------------------------------------------------------
(* The anchor shortening without threat, under the anchor specification *)

(* C21 as stated: an update that finds a mover at threatAlpha = 0 and chooses
   no anchor target for it leaves the end, the duration and the velocity of
   its anchor transition as they are, whatever its episode. *)
C21_ShorteningOnlyUnderThreat ==
    [][last'.op = "update" /\ ~last'.respawnedAll =>
          \A i \in Kept :
              (/\ ~movers[i].dead
               /\ threatAlpha(movers[i]) = 0
               /\ movers'[i].anchorMoveStart = movers[i].anchorMoveStart) =>
                  /\ movers'[i].anchorMoveEnd = movers[i].anchorMoveEnd
                  /\ movers'[i].anchorMoveDuration = movers[i].anchorMoveDuration
                  /\ movers'[i].anchorVelSx = movers[i].anchorVelSx]_vars
----------------------------------------------------------------------------
(* The micro specification: one mover and frames 2600 ms apart, so that every
   update finds the micro timer of 2500 ms expired and chooses a pattern and
   a tier.  The pattern draw is the first or the last name of the candidates,
   the tier draw is any. *)

MicroTime == 18200

MicroSteps == {2600}

MicroDraws ==
    [role : {0}, episode : {0}, pattern : {0, RandDen - 1}, tier : 0..(RandDen - 1),
     sx : {2}, vx : {0}, microDur : {0}, roleLife : {0}, episodeLife : {RandDen - 1}, dna : {1},
     cand : {<<0>>}, jitter : {0}, anchorDur : {0}, pt : {0}, noise : {0}, feint : {FALSE},
     feintChoice : {0}, flipDur : {0}, zigDur : {0}, zz : {0}]

InitMicro ==
    \E d \in MicroDraws :
        InitAt(configured(d, 1), [defaults EXCEPT !.moversCount = 1], Did("setMoversCount", d))

NextMicro == UpdateUntil(MicroDraws, MicroSteps, MaxPool, MicroTime)

SpecMicro == InitMicro /\ [][NextMicro]_vars

(* C22: no mover ever counts more than 3 consecutive picks outside the
   figure-eight family, and a mover that has counted 3 of them gets a pattern
   of the family from chooseNewMicro, whatever the draw. *)
C22_AntiDrought ==
    \A i \in 1..Len(movers) :
        /\ movers[i].nonFigureCount <= 3
        /\ movers[i].nonFigureCount >= 3 =>
               \A d \in MicroDraws :
                   /\ chooseNewMicro(movers[i], now, d).microPattern \in FigureFamily
                   /\ chooseNewMicro(movers[i], now, d).nonFigureCount = 0

(* A mover that has had 3 picks in a row outside the family. *)
C22_Witness ==
    \E i \in 1..Len(movers) :
        movers[i].nonFigureCount = 3 /\ movers[i].microPattern \notin FigureFamily

(* C23 as stated: an update that chooses a pattern for a mover once advances
   the mover's tier index by one position modulo 5, and the tier of the mover
   is the entry of S, M, L, M, S at that index. *)
C23_TiersFollowCycle ==
    [][last'.op = "update" /\ ~last'.respawnedAll =>
          \A i \in Kept :
              (/\ ~movers[i].dead
               /\ movers'[i].microStart = now'
               /\ now' <= movers[i].roleExpires
               /\ now' <= movers[i].episodeExpires) =>
                  /\ movers'[i].microTierIndex = (movers[i].microTierIndex + 1) % Len(MICRO_TIERS)
                  /\ movers'[i].microTier = MICRO_TIERS[movers'[i].microTierIndex + 1]]_vars

----------------------------------------------------------------------------
(* The blend specification: the offset specification with an episode that
   expires at clock 3000, less than 600 ms after the micro timer of 2500 ms
   has changed the pattern. *)

BlendTime == 3100

BlendDraws == {[d EXCEPT !.episodeLife = 1] : d \in OffsetDraws}

InitBlend ==
    \E d \in BlendDraws :
        InitAt(configured(d, 1), [defaults EXCEPT !.moversCount = 1], Did("setMoversCount", d))

NextBlend == UpdateUntil(BlendDraws, AnchorSteps, MaxPool, BlendTime)

SpecBlend == InitBlend /\ [][NextBlend]_vars

(* C24 as stated: in an update that has just chosen a pattern and a tier for a
   mover, whatever the time since the choice before, the offset returned for
   the mover equals the offset the update before returned for it. *)
C24_BlendContinuity ==
    [][last.op = "update" /\ last'.op = "update" /\ ~last'.respawnedAll =>
          \A i \in Kept :
              (~movers[i].dead /\ movers'[i].microStart = now') =>
                  offsetOf(i)' = offsetOf(i)]_vars

----------------------------------------------------------------------------
(* The flee specification: one mover spawned under the crosshair, in flee
   mode or not, in the episode Perform or Evade; frames of 17 ms and shots.
   The anchor goes to the right corner, and a mover that has been hit in flee
   mode is pushed outwards until it meets the wall. *)

FleeTime == 2000
FleeCap == 5        \* no shot once a pool's counts sum to this

FleeDraws == {d \in OffsetDraws : d.jitter # 0}

FleeSpawns == {[d EXCEPT !.episode = e] : d \in FleeDraws, e \in {0, RandDen - 1}}

InitFlee ==
    \E d \in FleeSpawns, flee \in BOOLEAN :
        InitAt(configured(d, 1), [defaults EXCEPT !.moversCount = 1, !.moversFlee = flee],
               Did("setMoversCount", d))

NextFlee ==
    \/ UpdateUntil(FleeDraws, AnchorSteps, MaxPool, FleeTime)
    \/ Shoot(FleeDraws, FleeCap)

SpecFlee == InitFlee /\ [][NextFlee]_vars

(* C25: after every update every live mover is within the walls,
   |sx| <= limX - r; and where the published position is not the old position
   advanced by the published velocity, that is where the position was
   clamped, the mover is on the wall and has no velocity into it. *)
C25_WallContainment ==
    [][last'.op = "update" /\ ~last'.respawnedAll =>
          \A i \in Kept : ~movers[i].dead =>
              /\ Abs(movers'[i].sx) <= limX - movers'[i].r
              /\ movers'[i].sx # movers[i].sx + Div(movers'[i].vx * frameDtN(now' - now), VelScale) =>
                     /\ Abs(movers'[i].sx) = limX - movers'[i].r
                     /\ movers'[i].vx * Sign(movers'[i].sx) <= 0]_vars

(* A mover in flight from a hit that an update has stopped on a wall. *)
C25_Witness ==
    /\ last.op = "update"
    /\ \E i \in Slots :
           /\ ~movers[i].dead
           /\ movers[i].escapeBoost > 0
           /\ Abs(movers[i].sx) = limX - movers[i].r
           /\ movers[i].vx = 0

----------------------------------------------------------------------------
(* The order of the steps of a frame, under the threat specification *)

(* C26: in an update of a lone live mover the heat map is decayed first, the
   occupancy is added to the decayed heat, and the anchor choice of the frame,
   if there is one, adds its increment after both; the micro timer is
   shortened by the threat of the position the frame started from. *)
C26_FrameOrdering ==
    [][(/\ last'.op = "update"
        /\ ~last'.respawnedAll
        /\ Len(movers) = 1
        /\ 1 \in Kept
        /\ ~movers[1].dead) =>
          /\ IF movers'[1].anchorMoveStart = now'
             THEN \E c \in Cells :
                      heatMap' = addHeat(occupyHeat(decayHeatMap(heatMap), movers, 1),
                                         c - 1, HEATMAP_INCREMENT)
             ELSE heatMap' = occupyHeat(decayHeatMap(heatMap), movers, 1)
          /\ movers'[1].microStart = movers[1].microStart =>
                 movers'[1].microNextSwitch =
                     Min(movers[1].microNextSwitch,
                         now' + (movers[1].microDuration * (200 - threatAlpha(movers[1])))
                                    \div 200)]_vars

(* An update under threat that has chosen an anchor target on a heated map,
   the micro timer shortened. *)
C26_Witness ==
    /\ last.op = "update"
    /\ Len(movers) = 1
    /\ ~movers[1].dead
    /\ threatAlpha(movers[1]) > 0
    /\ movers[1].anchorMoveStart = now
    /\ movers[1].microNextSwitch < movers[1].microStart + MICRO_MIN_MS
    /\ \E c \in Cells : heatMap[c] > HEATMAP_INCREMENT

----------------------------------------------------------------------------
(* The order of the movers within a frame, under the lifecycle specification *)

(* The frame of two movers with the second mover processed before the first *)
frameSwapped(s0, t, dtN, d) ==
    updateMover(updateMover(heatStep(s0), moversScr(s0.movers), 2, t, dtN, d),
                moversScr(s0.movers), 1, t, dtN, d)

(* C27 as stated: in an update of two live movers, what the frame leaves in
   each mover (anchor target, position, velocity) is what it would leave with
   the two movers processed in the other order. *)
C27_OrderIndependent ==
    [][(/\ last'.op = "update"
        /\ ~last'.respawnedAll
        /\ Len(movers) = 2
        /\ Kept = {1, 2}
        /\ \A i \in Slots : ~movers[i].dead) =>
          \A i \in Slots :
              movers'[i] = frameSwapped(World, now', frameDtN(now' - now), last'.d).movers[i]]_vars

----------------------------------------------------------------------------
(* The anchor deadline, under the flee specification *)

(* C28: after every update every live mover has its anchor deadline in the
   future, anchorMoveEnd > now; a mover whose deadline the clock of the update
   has reached gets a new target in that update. *)
C28_DeadlineInFuture ==
    [][last'.op = "update" =>
          \A i \in 1..Len(movers') : ~movers'[i].dead =>
              /\ movers'[i].anchorMoveEnd > now'
              /\ (i \in Kept /\ ~movers[i].dead /\ movers[i].anchorMoveEnd <= now') =>
                     movers'[i].anchorMoveStart = now']_vars

(* An update that has found the deadline reached and has chosen a target. *)
C28_Witness ==
    /\ last.op = "update"
    /\ now > 0
    /\ \E i \in Slots :
           /\ ~movers[i].dead
           /\ movers[i].anchorMoveStart = now
           /\ movers[i].anchorTargetSx # 0

----------------------------------------------------------------------------
(* The recovery from an all-dead collection, under the lifecycle specification *)

(* C29: with regenOnHit off, the update that finds a non-empty collection all
   dead leaves every mover alive with no hits; and while a mover of the
   collection is alive, no update and no shot revives a dead one. *)
C29_AllDeadRecovery ==
    [][~cfg.regenOnHit =>
          /\ (/\ last'.op = "update"
              /\ Len(movers) > 0
              /\ \A i \in Slots : movers[i].dead) =>
                 /\ Len(movers') > 0
                 /\ \A i \in 1..Len(movers') : ~movers'[i].dead /\ movers'[i].hits = 0
          /\ (/\ last'.op \in {"update", "shoot"}
              /\ \E j \in Slots : ~movers[j].dead) =>
                 \A i \in Slots : movers[i].dead => (i <= Len(movers') /\ movers'[i].dead)]_vars

(* An update that has found every mover dead and has left them all alive. *)
C29_Witness ==
    /\ last.op = "update"
    /\ last.respawnedAll
    /\ ~cfg.regenOnHit
    /\ now > 0
    /\ Len(movers) > 0
    /\ \A i \in Slots : ~movers[i].dead /\ movers[i].hits = 0 /\ movers[i].microStart = now

----------------------------------------------------------------------------
(* The gate of the flee force, under the flee specification *)

(* The pull towards anchor + offset and the noise that the update of a lone
   mover i has just applied, in 1/VelScale px per frame: desVx without a flee
   force and without a boost. *)
pullOf(i) == (movers'[i].anchorPosSx + offsetOf(i)' - movers[i].sx) * 6 + last'.d.noise

(* The velocity the update publishes for the desired velocity des of mover i,
   short of the wall. *)
publishedFor(i, des) == capSpeed(steer(des, movers[i].vx))

(* C30: the player standing still, the update of a lone live mover publishes
   the pull alone when the mover has no escapeBoost, flee mode on or off; the
   pull times (1 + escapeBoost), and no flee force, when it has one and flee
   mode is off; a velocity other than the pull's needs an escapeBoost, and in
   flee mode it differs from the pull's away from the centre. *)
C30_FleeGating ==
    [][(/\ last'.op = "update"
        /\ ~last'.respawnedAll
        /\ Len(movers) = 1
        /\ 1 \in Kept
        /\ ~movers[1].dead
        /\ movers'[1].sx = movers[1].sx + Div(movers'[1].vx * frameDtN(now' - now), VelScale)) =>
          /\ movers'[1].escapeBoost = 0 =>
                 movers'[1].vx = publishedFor(1, pullOf(1))
          /\ (movers'[1].escapeBoost > 0 /\ ~cfg.moversFlee) =>
                 movers'[1].vx =
                     publishedFor(1, Div(pullOf(1) * (100 + movers'[1].escapeBoost), 100))
          /\ movers'[1].vx # publishedFor(1, pullOf(1)) =>
                 /\ movers'[1].escapeBoost > 0
                 /\ cfg.moversFlee =>
                        (movers'[1].vx - publishedFor(1, pullOf(1))) * Sign(movers[1].sx) > 0]_vars

(* An update has published a boosted pull with flee mode off. *)
C30_Witness ==
    /\ last.op = "update"
    /\ ~cfg.moversFlee
    /\ \E i \in Slots :
           /\ ~movers[i].dead
           /\ movers[i].escapeBoost > 0
           /\ movers[i].vx # 0
           /\ movers[i].sx # 0

====
